---- MODULE Spec2Model ----
(***************************************************************************)
(* Flag resolution of sf-plugins-core: the four org flags of               *)
(* src/flags/orgFlags.ts and the API version flag (orgApiVersionFlag).     *)
(* Every parse / default / defaultHelp call is one action; the external    *)
(* SDK (Org.create, ConfigAggregator, determineIfDevHubOrg, Lifecycle) is  *)
(* the environment: its state is in the variables, its answers are         *)
(* recorded in the call trace of the invocation.                           *)
(***************************************************************************)
EXTENDS Integers, Sequences, FiniteSets, TLC

VARIABLES
  authOrgs,      \* usernames Org.create can open a session for
  devHubs,       \* the usernames among them whose org is a dev hub
  targetOrg,     \* config value of OrgConfigProperties.TARGET_ORG
  targetDevHub,  \* config value of OrgConfigProperties.TARGET_DEV_HUB
  res,           \* outcome of the last org flag invocation
  calls,         \* external calls the last org flag invocation made, in order
  apiRes,        \* outcome of the last orgApiVersionFlag invocation
  warnings       \* warnings the last orgApiVersionFlag invocation emitted

vars == <<authOrgs, devHubs, targetOrg, targetDevHub, res, calls, apiRes, warnings>>
orgVars == <<authOrgs, devHubs, targetOrg, targetDevHub, res, calls>>
apiVars == <<apiRes, warnings>>

----------------------------------------------------------------------------
(* Values *)

\* JavaScript undefined (distinct from the empty string)
Undef == "<undefined>"

Usernames == {"u1", "u2"}

\* alias-or-username strings a caller or the configuration can hold:
\* the empty string, two usernames, an alias of u1 and a name of no org
Ids == {"", "u1", "u2", "al1", "ghost"}

MaybeIds == Ids \cup {Undef}

\* !x is false: x is neither undefined nor ''
Truthy(x) == x # Undef /\ x # ""

Return(v, cs) == [kind |-> "return", val |-> v, err |-> "none", param |-> Undef, calls |-> cs]

Throw(e, p, cs) == [kind |-> "throw", val |-> Undef, err |-> e, param |-> p, calls |-> cs]

Call(f, a, ok, out) == [fn |-> f, arg |-> a, ok |-> ok, out |-> out]

----------------------------------------------------------------------------
(* The SDK as the org flags use it *)

\* alias resolution inside Org.create: al1 names u1, anything else itself
resolveUsername(id) == IF id = "al1" THEN "u1" ELSE id

\* Org.create({ aliasOrUsername }): without an identifier the configured
\* default org is the target; fails when there is no target, when the
\* target is no known org, or when the session cannot be opened (down)
OrgCreate(aliasOrUsername, down) ==
  LET id == IF aliasOrUsername = Undef THEN targetOrg ELSE aliasOrUsername
      username == resolveUsername(id)
  IN  IF ~Truthy(id) THEN Call("Org.create", aliasOrUsername, FALSE, "NoUsernameFoundError")
      ELSE IF username \notin authOrgs
             THEN Call("Org.create", aliasOrUsername, FALSE, "NamedOrgNotFoundError")
      ELSE IF down THEN Call("Org.create", aliasOrUsername, FALSE, "ConnectionError")
      ELSE Call("Org.create", aliasOrUsername, TRUE, username)

\* org.getUsername(): an org handle is modelled by its username
getUsername(org) == org

\* org.determineIfDevHubOrg()
determineIfDevHubOrg(org) == org \in devHubs

----------------------------------------------------------------------------
(* orgFlags.ts *)

\* mutant: the catch block swallows every failure
maybeGetOrg_swallowAll(input, down) ==
  LET c == OrgCreate(input, down)
  IN  IF c.ok THEN Return(c.out, <<c>>) ELSE Return(Undef, <<c>>)

maybeGetOrg(input, down) ==
  LET c == OrgCreate(input, down)
  IN  IF c.ok THEN Return(c.out, <<c>>)
      ELSE IF ~Truthy(input) THEN Return(Undef, <<c>>)
      ELSE Throw(c.out, Undef, <<c>>)

\* mutant: the dev hub predicate is asked but its answer is ignored
ensureDevHub_noCheck(org, aliasOrUsername) ==
  Return(org, <<Call("determineIfDevHubOrg", org, TRUE, determineIfDevHubOrg(org))>>)

ensureDevHub(org, aliasOrUsername) ==
  LET c == Call("determineIfDevHubOrg", org, TRUE, determineIfDevHubOrg(org))
  IN  IF c.out THEN Return(org, <<c>>)
      ELSE Throw("NotADevHub",
                 IF aliasOrUsername # Undef THEN aliasOrUsername ELSE getUsername(org),
                 <<c>>)

\* mutant: throwIfNotFound is ignored
getDefaultHub_neverThrows(throwIfNotFound) ==
  Return(targetDevHub, <<Call("ConfigAggregator.create", "target-dev-hub", TRUE, targetDevHub)>>)

getDefaultHub(throwIfNotFound) ==
  LET c == Call("ConfigAggregator.create", "target-dev-hub", TRUE, targetDevHub)
      aliasOrUsername == c.out
  IN  IF throwIfNotFound /\ ~Truthy(aliasOrUsername)
        THEN Throw("NoDefaultDevHub", Undef, <<c>>)
        ELSE Return(aliasOrUsername, <<c>>)

\* r, after the calls cs that were made before it
After(cs, r) == [r EXCEPT !.calls = cs \o r.calls]

\* mutant: the default dev hub is not looked up
maybeGetHub_noDefaultHub(input, down) ==
  LET o == maybeGetOrg(input, down)
  IN  IF o.kind = "throw" THEN o
      ELSE IF o.val # Undef
        THEN After(o.calls,
                   ensureDevHub(o.val, IF input # Undef THEN input ELSE getUsername(o.val)))
      ELSE Return(Undef, o.calls)

maybeGetHub(input, down) ==
  LET d == IF input # Undef THEN Return(input, <<>>) ELSE getDefaultHub(FALSE)
      o == After(d.calls, maybeGetOrg(d.val, down))
  IN  IF o.kind = "throw" THEN o
      ELSE IF o.val # Undef
        THEN After(o.calls,
                   ensureDevHub(o.val, IF input # Undef THEN input ELSE getUsername(o.val)))
      ELSE Return(Undef, o.calls)

\* mutant: the missing org is not turned into NoDefaultEnv
getOrgOrThrow_noThrow(input, down) == maybeGetOrg(input, down)

getOrgOrThrow(input, down) ==
  LET o == maybeGetOrg(input, down)
  IN  IF o.kind = "throw" THEN o
      ELSE IF o.val = Undef THEN Throw("NoDefaultEnv", Undef, o.calls)
      ELSE o

getHubOrThrow(aliasOrUsername, down) ==
  LET d == IF aliasOrUsername # Undef THEN Return(aliasOrUsername, <<>>) ELSE getDefaultHub(TRUE)
      resolved == d.val
      c == OrgCreate(resolved, down)
  IN  IF d.kind = "throw" THEN d
      ELSE IF ~c.ok THEN Throw(c.out, Undef, d.calls \o <<c>>)
      ELSE After(d.calls \o <<c>>, ensureDevHub(c.out, resolved))

\* (await f())?.getUsername() of the defaultHelp callbacks
UsernameOf(r) ==
  IF r.kind = "return" /\ r.val # Undef THEN [r EXCEPT !.val = getUsername(r.val)] ELSE r

----------------------------------------------------------------------------
(* One invocation of a flag callback *)

Finish(flag, op, input, down, r) ==
  /\ res' = [flag |-> flag, op |-> op, input |-> input, down |-> down,
             kind |-> r.kind, val |-> r.val, err |-> r.err, param |-> r.param]
  /\ calls' = r.calls
  /\ UNCHANGED <<authOrgs, devHubs, targetOrg, targetDevHub, apiVars>>

OptionalOrgParse ==
  \E input \in MaybeIds, down \in BOOLEAN :
    Finish("optionalOrg", "parse", input, down, maybeGetOrg(input, down))

OptionalOrgDefault ==
  \E down \in BOOLEAN :
    Finish("optionalOrg", "default", Undef, down, maybeGetOrg(Undef, down))

OptionalOrgDefaultHelp ==
  \E down \in BOOLEAN :
    Finish("optionalOrg", "defaultHelp", Undef, down, UsernameOf(maybeGetOrg(Undef, down)))

RequiredOrgParse ==
  \E input \in MaybeIds, down \in BOOLEAN :
    Finish("requiredOrg", "parse", input, down, getOrgOrThrow(input, down))

RequiredOrgDefault ==
  \E down \in BOOLEAN :
    Finish("requiredOrg", "default", Undef, down, getOrgOrThrow(Undef, down))

RequiredOrgDefaultHelp ==
  \E down \in BOOLEAN :
    Finish("requiredOrg", "defaultHelp", Undef, down, UsernameOf(getOrgOrThrow(Undef, down)))

RequiredHubParse ==
  \E input \in MaybeIds, down \in BOOLEAN :
    Finish("requiredHub", "parse", input, down, getHubOrThrow(input, down))

RequiredHubDefault ==
  \E down \in BOOLEAN :
    Finish("requiredHub", "default", Undef, down, getHubOrThrow(Undef, down))

RequiredHubDefaultHelp ==
  \E down \in BOOLEAN :
    Finish("requiredHub", "defaultHelp", Undef, down, UsernameOf(getHubOrThrow(Undef, down)))

OptionalHubParse ==
  \E input \in MaybeIds, down \in BOOLEAN :
    Finish("optionalHub", "parse", input, down, maybeGetHub(input, down))

OptionalHubDefault ==
  \E down \in BOOLEAN :
    Finish("optionalHub", "default", Undef, down, maybeGetHub(Undef, down))

OptionalHubDefaultHelp ==
  \E down \in BOOLEAN :
    Finish("optionalHub", "defaultHelp", Undef, down, UsernameOf(maybeGetHub(Undef, down)))

----------------------------------------------------------------------------
(* orgApiVersionFlag *)

\* longest version string the model feeds to the flag
MaxLen == 4

Alphabet == {"0", "1", "2", "3", "."}

\* strings are sequences of characters
Strs == UNION {[1..k -> Alphabet] : k \in 0..MaxLen}

\* JavaScript undefined where a string is expected
UndefStr == <<"<undefined>">>

\* !s is false: s is neither undefined nor ''
TruthyStr(s) == s # UndefStr /\ s # <<>>

DigitChars == <<"0", "1", "2", "3", "4", "5", "6", "7", "8", "9">>

IsDigit(c) == \E i \in 1..10 : DigitChars[i] = c

DigitVal(c) == (CHOOSE i \in 1..10 : DigitChars[i] = c) - 1

IsSpace(c) == c \in {" ", "\t", "\n"}

minValidApiVersion == 21

maxDeprecated == 30

maxDeprecatedUrl == "https://help.salesforce.com/s/articleView?id=000354473&type=1;"

\* sfdc.validateApiVersion: /^[1-9]\d\.0$/
validateApiVersion(value) ==
  /\ Len(value) = 4
  /\ IsDigit(value[1]) /\ value[1] # "0"
  /\ IsDigit(value[2])
  /\ value[3] = "."
  /\ value[4] = "0"

RECURSIVE SkipSpace(_, _)
SkipSpace(s, i) == IF i <= Len(s) /\ IsSpace(s[i]) THEN SkipSpace(s, i + 1) ELSE i

RECURSIVE DigitRun(_, _, _)
DigitRun(s, i, acc) ==
  IF i <= Len(s) /\ IsDigit(s[i]) THEN DigitRun(s, i + 1, acc * 10 + DigitVal(s[i])) ELSE acc

\* parseInt(s, 10): leading white space, an optional sign, then the longest
\* run of digits; NaN when there is no digit there
parseInt(s) ==
  LET b == SkipSpace(s, 1)
      signed == b <= Len(s) /\ s[b] \in {"+", "-"}
      d == IF signed THEN b + 1 ELSE b
  IN  IF d <= Len(s) /\ IsDigit(s[d])
        THEN [nan |-> FALSE,
              val |-> IF signed /\ s[b] = "-" THEN 0 - DigitRun(s, d, 0) ELSE DigitRun(s, d, 0)]
        ELSE [nan |-> TRUE, val |-> 0]

\* a < n and a <= n of JavaScript numbers: false when a is NaN
NumLt(a, n) == ~a.nan /\ a.val < n

NumLte(a, n) == ~a.nan /\ a.val <= n

ApiReturn(v, ws) == [kind |-> "return", val |-> v, err |-> "none", param |-> UndefStr, warnings |-> ws]

ApiThrow(e, p, ws) == [kind |-> "throw", val |-> UndefStr, err |-> e, param |-> p, warnings |-> ws]

\* messages.getMessage(key, tokens): the message key followed by its tokens
getMessage(key, tokens) == <<key>> \o tokens

\* mutant: the retired-version check runs before the format check
validate_rangeFirst(input) ==
  LET requestedVersion == parseInt(input)
  IN  IF NumLt(requestedVersion, minValidApiVersion)
        THEN ApiThrow("RetiredApiVersion", minValidApiVersion, <<>>)
      ELSE IF ~validateApiVersion(input) THEN ApiThrow("InvalidApiVersion", input, <<>>)
      ELSE IF NumLte(requestedVersion, maxDeprecated)
        THEN ApiReturn(input, <<getMessage("flags.apiVersion.warning.deprecated",
                                           <<maxDeprecated, maxDeprecatedUrl>>)>>)
      ELSE ApiReturn(input, <<>>)

\* mutant: maxDeprecated itself is not treated as deprecated
validate_strictDeprecated(input) ==
  IF ~validateApiVersion(input) THEN ApiThrow("InvalidApiVersion", input, <<>>)
  ELSE LET requestedVersion == parseInt(input)
       IN  IF NumLt(requestedVersion, minValidApiVersion)
             THEN ApiThrow("RetiredApiVersion", minValidApiVersion, <<>>)
           ELSE IF NumLt(requestedVersion, maxDeprecated)
             THEN ApiReturn(input, <<getMessage("flags.apiVersion.warning.deprecated",
                                                <<maxDeprecated, maxDeprecatedUrl>>)>>)
           ELSE ApiReturn(input, <<>>)

validate(input) ==
  IF ~validateApiVersion(input) THEN ApiThrow("InvalidApiVersion", input, <<>>)
  ELSE LET requestedVersion == parseInt(input)
       IN  IF NumLt(requestedVersion, minValidApiVersion)
             THEN ApiThrow("RetiredApiVersion", minValidApiVersion, <<>>)
           ELSE IF NumLte(requestedVersion, maxDeprecated)
             THEN ApiReturn(input, <<getMessage("flags.apiVersion.warning.deprecated",
                                                <<maxDeprecated, maxDeprecatedUrl>>)>>)
           ELSE ApiReturn(input, <<>>)

\* mutant: the configured value is returned without validation
getDefaultFromConfig_unvalidated(apiVersionFromConfig) ==
  IF TruthyStr(apiVersionFromConfig)
    THEN ApiReturn(apiVersionFromConfig,
                   <<getMessage("flags.apiVersion.overrideWarning", <<apiVersionFromConfig>>)>>)
    ELSE ApiReturn(UndefStr, <<>>)

\* apiVersionFromConfig: what config.getInfo(ORG_API_VERSION)?.value holds
getDefaultFromConfig(apiVersionFromConfig) ==
  IF TruthyStr(apiVersionFromConfig)
    THEN LET w == getMessage("flags.apiVersion.overrideWarning", <<apiVersionFromConfig>>)
             v == validate(apiVersionFromConfig)
         IN  [v EXCEPT !.warnings = <<w>> \o v.warnings]
    ELSE ApiReturn(UndefStr, <<>>)

ApiFinish(op, input, r) ==
  /\ apiRes' = [op |-> op, input |-> input, kind |-> r.kind, val |-> r.val,
                err |-> r.err, param |-> r.param]
  /\ warnings' = r.warnings
  /\ UNCHANGED orgVars

ApiVersionParse ==
  \E input \in Strs : ApiFinish("parse", input, validate(input))

ApiVersionDefault ==
  \E cfg \in Strs \cup {UndefStr} : ApiFinish("default", cfg, getDefaultFromConfig(cfg))

NoRes == [flag |-> "none", op |-> "none", input |-> Undef, down |-> FALSE,
          kind |-> "none", val |-> Undef, err |-> "none", param |-> Undef]

NoApiRes == [op |-> "none", input |-> UndefStr, kind |-> "none", val |-> UndefStr,
             err |-> "none", param |-> UndefStr]

Init ==
  /\ authOrgs \in SUBSET Usernames
  /\ devHubs \in SUBSET authOrgs
  /\ targetOrg \in MaybeIds
  /\ targetDevHub \in MaybeIds
  /\ res = NoRes
  /\ calls = <<>>
  /\ apiRes = NoApiRes
  /\ warnings = <<>>

Next ==
  \/ OptionalOrgParse
  \/ OptionalOrgDefault
  \/ OptionalOrgDefaultHelp
  \/ RequiredOrgParse
  \/ RequiredOrgDefault
  \/ RequiredOrgDefaultHelp
  \/ RequiredHubParse
  \/ RequiredHubDefault
  \/ RequiredHubDefaultHelp
  \/ OptionalHubParse
  \/ OptionalHubDefault
  \/ OptionalHubDefaultHelp

Spec == Init /\ [][Next]_vars

\* the API version flag on its own: it reads no org state
InitApi ==
  /\ authOrgs = {}
  /\ devHubs = {}
  /\ targetOrg = Undef
  /\ targetDevHub = Undef
  /\ res = NoRes
  /\ calls = <<>>
  /\ apiRes = NoApiRes
  /\ warnings = <<>>

NextApi ==
  \/ ApiVersionParse
  \/ ApiVersionDefault

SpecApi == InitApi /\ [][NextApi]_vars

----------------------------------------------------------------------------
(* Properties of the org flags (under Spec) *)

\* the last invocation was a parse or default callback of flag f
Ran(f) == res.flag = f /\ res.op \in {"parse", "default"}

\* the Org.create calls of the last invocation
Creates == {i \in DOMAIN calls : calls[i].fn = "Org.create"}

CreateFailed == \E i \in Creates : ~calls[i].ok

\* the failure Org.create raised and the identifier it was given
CreateError == calls[CHOOSE i \in Creates : ~calls[i].ok].out

CreateArg == calls[CHOOSE i \in Creates : TRUE].arg

Propagated == res.kind = "throw" /\ res.err = CreateError

NoValue == res.kind = "return" /\ res.val = Undef

\* C1: the optional org flag never fails, whatever the input and whatever
\* session creation does; an identifier that cannot be resolved gives no value.
C1_OptionalOrgNeverFails ==
  Ran("optionalOrg") => /\ res.kind = "return"
                        /\ (CreateFailed => res.val = Undef)

\* C2 (as stated): the required org flag fails with NoDefaultEnv whenever no
\* org can be resolved, with or without an input.
C2_RequiredOrgAlwaysNoDefaultEnv ==
  (Ran("requiredOrg") /\ CreateFailed) => (res.kind = "throw" /\ res.err = "NoDefaultEnv")

\* C2 (amended): the required org flag never completes with no value; when no
\* org can be resolved it fails with NoDefaultEnv if no (non-empty) input was
\* given, and with the session-creation failure itself if an input was given.
C2_RequiredOrgFailure ==
  Ran("requiredOrg") =>
    /\ (res.kind = "return" => res.val \in authOrgs)
    /\ (CreateFailed =>
          /\ res.kind = "throw"
          /\ (IF Truthy(res.input) THEN res.err = CreateError ELSE res.err = "NoDefaultEnv"))

C2_Witness ==
  /\ Ran("requiredOrg") /\ res.input = Undef /\ targetOrg = "ghost"
  /\ CreateFailed /\ res.err = "NoDefaultEnv"

\* C3: the optional hub flag, without input and without a configured default
\* dev hub, completes with no value whatever the default org is.
C3_OptionalHubNoDefaultNoValue ==
  (Ran("optionalHub") /\ res.input = Undef /\ ~Truthy(targetDevHub)) => NoValue

C5_HubFlagsEnsureDevHub ==
  (Ran("requiredHub") \/ Ran("optionalHub")) =>
    /\ (res.kind = "return" /\ res.val # Undef) => res.val \in devHubs
    /\ \A i \in Creates : (calls[i].ok /\ calls[i].out \notin devHubs) =>
         /\ res.kind = "throw" /\ res.err = "NotADevHub"
         /\ IF res.input # Undef THEN res.param = res.input
            ELSE res.param \in {targetDevHub, getUsername(calls[i].out)}

C5_Witness ==
  /\ Ran("optionalHub") /\ res.input = "al1" /\ "u1" \in authOrgs
  /\ res.err = "NotADevHub" /\ res.param = "al1"

\* C6: the required hub flag, without input and without a configured default
\* dev hub, fails with NoDefaultDevHub before any session creation; with an
\* input it does not read the configuration and creates the session for
\* exactly that input.
C6_RequiredHubOrder ==
  Ran("requiredHub") =>
    /\ (res.input = Undef /\ ~Truthy(targetDevHub)) =>
         (res.kind = "throw" /\ res.err = "NoDefaultDevHub" /\ Creates = {})
    /\ (res.input # Undef) =>
         /\ \A i \in DOMAIN calls : calls[i].fn # "ConfigAggregator.create"
         /\ Cardinality(Creates) = 1
         /\ \A i \in Creates : calls[i].arg = res.input

C6_Witness ==
  /\ Ran("requiredHub") /\ res.input = Undef /\ targetDevHub = Undef
  /\ targetOrg = "u1" /\ "u1" \in devHubs
  /\ res.err = "NoDefaultDevHub"

\* C10 (as stated): the optional hub flag completes with no value whenever
\* session creation fails for its target (input or default dev hub).
C10_OptionalHubSwallowsCreateFailure ==
  (Ran("optionalHub") /\ CreateFailed) => NoValue

\* C10 (amended): when session creation fails, the optional hub flag completes
\* with no value only if it had no identifier (no or empty input and no default
\* dev hub); if an input or the configured default dev hub cannot be resolved,
\* the creation failure is propagated.
C10_OptionalHubCreateFailure ==
  (Ran("optionalHub") /\ CreateFailed) =>
    LET id == IF res.input # Undef THEN res.input ELSE targetDevHub
    IN  IF Truthy(id) THEN Propagated ELSE NoValue

C10_Witness ==
  /\ Ran("optionalHub") /\ res.input = Undef /\ targetDevHub = "ghost"
  /\ CreateFailed /\ Propagated

----------------------------------------------------------------------------
(* Properties of orgApiVersionFlag (under SpecApi) *)

DeprecationWarnings ==
  Cardinality({i \in DOMAIN warnings : warnings[i][1] = "flags.apiVersion.warning.deprecated"})

InvalidWith(s) ==
  apiRes.kind = "throw" /\ apiRes.err = "InvalidApiVersion" /\ apiRes.param = s

Retired ==
  apiRes.kind = "throw" /\ apiRes.err = "RetiredApiVersion" /\ apiRes.param = minValidApiVersion

\* C7: parse fails with InvalidApiVersion (naming the input) on every string
\* that fails the format check, whatever its numeric prefix; fails with
\* RetiredApiVersion (naming 21) on a well-formed string below 21; returns
\* every other string unchanged. What it returns is well-formed and >= 21.
C7_ParseClassifies ==
  apiRes.op = "parse" =>
    LET s == apiRes.input
        n == parseInt(s)
    IN  /\ IF ~validateApiVersion(s) THEN InvalidWith(s)
           ELSE IF n.val < minValidApiVersion THEN Retired
           ELSE apiRes.kind = "return" /\ apiRes.val = s
        /\ apiRes.kind = "return" =>
             /\ validateApiVersion(apiRes.val)
             /\ ~parseInt(apiRes.val).nan
             /\ parseInt(apiRes.val).val >= minValidApiVersion

C7_Witness ==
  /\ apiRes.op = "parse" /\ apiRes.input = <<"1", "0">>
  /\ apiRes.err = "InvalidApiVersion"

\* C8 (as stated): parse succeeds with exactly one deprecation warning on every
\* string whose integer value is in 21..30; a failed parse and a value above 30
\* emit no deprecation warning.
C8_DeprecationByIntegerValue ==
  apiRes.op = "parse" =>
    LET n == parseInt(apiRes.input)
    IN  /\ (~n.nan /\ n.val >= minValidApiVersion /\ n.val <= maxDeprecated) =>
             (apiRes.kind = "return" /\ DeprecationWarnings = 1)
        /\ (apiRes.kind = "throw" \/ (~n.nan /\ n.val > maxDeprecated)) =>
             DeprecationWarnings = 0

\* C8 (amended): parse succeeds with exactly one deprecation warning on every
\* well-formed string whose integer value is in 21..30; a failed parse and a
\* value above 30 emit no deprecation warning.
C8_DeprecationWellFormed ==
  apiRes.op = "parse" =>
    LET n == parseInt(apiRes.input)
    IN  /\ (validateApiVersion(apiRes.input) /\ ~n.nan
              /\ n.val >= minValidApiVersion /\ n.val <= maxDeprecated) =>
             (apiRes.kind = "return" /\ DeprecationWarnings = 1)
        /\ (apiRes.kind = "throw" \/ (~n.nan /\ n.val > maxDeprecated)) =>
             DeprecationWarnings = 0

C8_Witness ==
  /\ apiRes.op = "parse" /\ apiRes.input = <<"3", "0", ".", "0">>
  /\ apiRes.kind = "return" /\ DeprecationWarnings = 1

\* C9: default() returns no value and warns of nothing when no API version is
\* configured; otherwise it first emits the override warning for the configured
\* value and then ends as parse of that value does (result, failure and
\* deprecation warning).
C9_DefaultIsValidatedConfig ==
  apiRes.op = "default" =>
    LET cfg == apiRes.input
    IN  IF ~TruthyStr(cfg)
          THEN apiRes.kind = "return" /\ apiRes.val = UndefStr /\ warnings = <<>>
          ELSE LET p == validate(cfg)
               IN  /\ Len(warnings) >= 1
                   /\ warnings[1] = <<"flags.apiVersion.overrideWarning", cfg>>
                   /\ Tail(warnings) = p.warnings
                   /\ apiRes.kind = p.kind
                   /\ apiRes.val = p.val
                   /\ apiRes.err = p.err
                   /\ (apiRes.err = "InvalidApiVersion" => apiRes.param = cfg)
                   /\ (apiRes.err = "RetiredApiVersion" => apiRes.param = minValidApiVersion)

C9_Witness ==
  /\ apiRes.op = "default" /\ apiRes.input = <<"2", "1", ".", "0">>
  /\ apiRes.kind = "return" /\ apiRes.val = <<"2", "1", ".", "0">>
  /\ Len(warnings) = 2

====
